---- MODULE Spec2Model ----
(***************************************************************************)
(* Model of src/whop_downloader.py: the extraction run of WhopDownloader   *)
(* (cache check, browser session, response observer, login wait,           *)
(* navigation detector, automatic pager, manual monitoring, finalization)  *)
(* and the commands that call it.                                          *)
(*                                                                         *)
(* The program is one asyncio task.  Each action below is the code that    *)
(* runs between two suspension points (await); pc names the await the task *)
(* is suspended in.  The response callback handle_response runs only while *)
(* the task is suspended, so it is an action of its own, enabled at every  *)
(* pc between page.on(...) and the return.                                 *)
(*                                                                         *)
(* Strings the code searches or splits (URLs, the cache file's text) are   *)
(* sequences of tokens; a token stands for a substring the code never      *)
(* looks inside ("stream.mux.com", ".m3u8", "/", "?", "login", ...).       *)
(***************************************************************************)
EXTENDS Integers, Sequences, FiniteSets, TLC

\* ------------------------------------------------------------ constants

max_attempts == 150

max_wait == 300

LoginPollSeconds == 2

PrimaryThreshold == 30

SecondaryThreshold == 15

RecoveryCredit == 10

ManualTimeout == 600

ManualPollSeconds == 2

\* The number of distinct streams the course serves (a bound of the model).
NumStreams == 2

\* ------------------------------------------------------- string helpers

Contains(s, t) == \E i \in DOMAIN s : s[i] = t

\* The first position of token t in s, 0 when s has none.
IndexOf(s, t) ==
    IF Contains(s, t) THEN CHOOSE i \in DOMAIN s :
                               s[i] = t /\ \A j \in 1..(i - 1) : s[j] # t
    ELSE 0

\* The last position of token t in s, 0 when s has none.
LastIndexOf(s, t) ==
    IF Contains(s, t) THEN CHOOSE i \in DOMAIN s :
                               s[i] = t /\ \A j \in (i + 1)..Len(s) : s[j] # t
    ELSE 0

\* s.split(t)[0]: what precedes the first t (all of s when it has none).
SplitFirst(s, t) ==
    IF Contains(s, t) THEN SubSeq(s, 1, IndexOf(s, t) - 1) ELSE s

\* s.split(t)[-1]: what follows the last t (all of s when it has none).
SplitLast(s, t) ==
    IF Contains(s, t) THEN SubSeq(s, LastIndexOf(s, t) + 1, Len(s)) ELSE s

\* s.split(t): the pieces of s between the occurrences of t.
RECURSIVE Split(_, _)
Split(s, t) ==
    IF Contains(s, t)
    THEN <<SubSeq(s, 1, IndexOf(s, t) - 1)>>
             \o Split(SubSeq(s, IndexOf(s, t) + 1, Len(s)), t)
    ELSE <<s>>

Digits == <<"0", "1", "2", "3", "4", "5", "6", "7", "8", "9">>

IsDigit(t) == \E d \in 1..10 : Digits[d] = t

DigitVal(t) == (CHOOSE d \in 1..10 : Digits[d] = t) - 1

\* str(n) for n >= 0, one token per decimal digit.
RECURSIVE IntToStr(_)
IntToStr(n) ==
    IF n < 10 THEN <<Digits[n + 1]>>
    ELSE IntToStr(n \div 10) \o <<Digits[(n % 10) + 1]>>

\* int(s) for a non-empty sequence of digit tokens.
RECURSIVE StrToInt(_)
StrToInt(s) ==
    IF Len(s) = 1 THEN DigitVal(s[1])
    ELSE 10 * StrToInt(SubSeq(s, 1, Len(s) - 1)) + DigitVal(s[Len(s)])

\* f"{n:0<w>d}": str(n) padded with zeros on the left to width w.
RECURSIVE ZeroPad(_, _)
ZeroPad(s, w) == IF Len(s) >= w THEN s ELSE ZeroPad(<<"0">> \o s, w)

\* ------------------------------------------------------------ the URLs

StreamIds == <<"abc123", "def456", "ghi789", "jkl012">>

MuxUrl(id) == <<"https:", "/", "/", "stream.mux.com", "/", id, ".m3u8">>

\* The responses the browser can deliver: each stream's manifest, the first
\* stream's manifest again with a query string, and two responses that are
\* no manifest of the streaming host.
ResponseUrls ==
    {MuxUrl(StreamIds[i]) : i \in 1..NumStreams}
    \cup {MuxUrl(StreamIds[1]) \o <<"?", "token=t2">>,
          <<"https:", "/", "/", "stream.mux.com", "/", StreamIds[1], ".ts">>,
          <<"https:", "/", "/", "cdn.whop.com", "/", StreamIds[1], ".m3u8">>}

LoginUrl == <<"https:", "/", "/", "whop.com", "/", "login">>

SigninUrl == <<"https:", "/", "/", "whop.com", "/", "signin">>

LessonUrl(n) ==
    <<"https:", "/", "/", "courses.apps.whop.com", "/", "lesson">> \o IntToStr(n)

\* 'login' in current_url or 'signin' in current_url
IsLoginBoundary(url) == Contains(url, "login") \/ Contains(url, "signin")

\* -------------------------------------------------- the response observer

\* A Python dict in insertion order: a sequence of entries with distinct keys.
Keys(d) == {d[i].video_id : i \in DOMAIN d}

\* d[k] = v: a key already there keeps its place and takes the new value, a
\* new key goes to the end.
DictSet(d, k, v) ==
    IF k \in Keys(d)
    THEN [i \in DOMAIN d |->
             IF d[i].video_id = k THEN [video_id |-> k, url |-> v] ELSE d[i]]
    ELSE Append(d, [video_id |-> k, url |-> v])

\* 'stream.mux.com' in url and '.m3u8' in url
IsManifest(url) == Contains(url, "stream.mux.com") /\ Contains(url, ".m3u8")

\* url.split('/')[-1].split('.m3u8')[0].split('?')[0]
VideoId(url) == SplitFirst(SplitFirst(SplitLast(url, "/"), ".m3u8"), "?")

\* handle_response without its membership test: every manifest is stored.
handle_response_overwrite(d, url) ==
    IF IsManifest(url) THEN DictSet(d, VideoId(url), url) ELSE d

\* handle_response: all_video_urls after the callback has run on a response.
handle_response(d, url) ==
    IF IsManifest(url)
    THEN IF VideoId(url) \notin Keys(d) THEN DictSet(d, VideoId(url), url) ELSE d
    ELSE d

\* ------------------------------------------------------------ finalization

\* f'Lesson {index:02d}'
LessonTitle(index) == <<"Lesson", " ">> \o ZeroPad(IntToStr(index), 2)

\* The loop of lines 317-324 with enumerate counting from 0.
ConvertZeroBased(d) ==
    [i \in DOMAIN d |-> [title |-> LessonTitle(i - 1), url |-> d[i].url,
                         video_id |-> d[i].video_id, index |-> i - 1]]

\* for index, (video_id, url) in enumerate(all_video_urls.items(), 1): ...
ConvertToVideoData(d) ==
    [i \in DOMAIN d |-> [title |-> LessonTitle(i), url |-> d[i].url,
                         video_id |-> d[i].video_id, index |-> i]]

\* The text json.dump writes for one record: its four values in key order.
DumpRecord(r) ==
    <<"{">> \o r.title \o <<",">> \o r.url \o <<",">> \o r.video_id
            \o <<",">> \o IntToStr(r.index) \o <<"}">>

RECURSIVE DumpRecords(_)
DumpRecords(v) ==
    IF v = <<>> THEN <<>> ELSE DumpRecord(Head(v)) \o DumpRecords(Tail(v))

\* json.dump(video_data, f, indent=2): the text of the cache file.
JsonDump(v) == <<"[">> \o DumpRecords(v) \o <<"]">>

\* The fields of one record's text are well formed: four of them, the last a
\* number.
RecordFieldsOk(fields) ==
    /\ Len(fields) = 4
    /\ fields[4] # <<>>
    /\ \A i \in DOMAIN fields[4] : IsDigit(fields[4][i])

\* json.load with a record's index read one too low.
ParseRecordIndexBelow(fields) ==
    [title |-> fields[1], url |-> fields[2], video_id |-> fields[3],
     index |-> StrToInt(fields[4]) - 1]

\* One record as json.load gives it.
ParseRecord(fields) ==
    [title |-> fields[1], url |-> fields[2], video_id |-> fields[3],
     index |-> StrToInt(fields[4])]

\* The records of the text between "[" and "]"; ok is FALSE where json.load
\* raises.
RECURSIVE LoadRecords(_)
LoadRecords(body) ==
    IF body = <<>> THEN [ok |-> TRUE, value |-> <<>>]
    ELSE IF body[1] # "{" \/ ~Contains(body, "}") THEN [ok |-> FALSE, value |-> <<>>]
    ELSE LET close == IndexOf(body, "}")
             fields == Split(SubSeq(body, 2, close - 1), ",")
             rest == LoadRecords(SubSeq(body, close + 1, Len(body)))
         IN  IF RecordFieldsOk(fields) /\ rest.ok
             THEN [ok |-> TRUE, value |-> <<ParseRecord(fields)>> \o rest.value]
             ELSE [ok |-> FALSE, value |-> <<>>]

\* json.load(f) on the cache file's text.
JsonLoad(text) ==
    IF Len(text) >= 2 /\ text[1] = "[" /\ text[Len(text)] = "]"
    THEN LoadRecords(SubSeq(text, 2, Len(text) - 1))
    ELSE [ok |-> FALSE, value |-> <<>>]

\* ------------------------------------------------------------ output paths

\* c.isalnum() or c in (' ', '-', '_'), for the tokens titles are made of.
IsSafeToken(t) == t \in {"Lesson", " ", "-", "_"} \/ IsDigit(t)

RECURSIVE RStrip(_)
RStrip(s) ==
    IF s # <<>> /\ s[Len(s)] = " " THEN RStrip(SubSeq(s, 1, Len(s) - 1)) ELSE s

\* "".join(c for c in title if ...).rstrip().replace(' ', '_')
SafeTitle(title) ==
    LET kept == RStrip(SelectSeq(title, IsSafeToken))
    IN  [i \in DOMAIN kept |-> IF kept[i] = " " THEN "_" ELSE kept[i]]

\* self.videos_dir / f"{index:03d}_{safe_title}.mp4"
OutputPath(index, title) ==
    ZeroPad(IntToStr(index), 3) \o <<"_">> \o SafeTitle(title) \o <<".mp4">>

\* --------------------------------------------------------- the cache check

\* Lines 71-81 with the force flag left out of the test.
CacheLookupIgnoringForce(file, force) ==
    IF file.exists /\ JsonLoad(file.text).ok /\ JsonLoad(file.text).value # <<>>
    THEN [hit |-> TRUE, value |-> JsonLoad(file.text).value]
    ELSE [hit |-> FALSE, value |-> <<>>]

\* Lines 71-81 with "if video_data:" left out: whatever parses is returned.
CacheLookupAnyParse(file, force) ==
    IF file.exists /\ ~force /\ JsonLoad(file.text).ok
    THEN [hit |-> TRUE, value |-> JsonLoad(file.text).value]
    ELSE [hit |-> FALSE, value |-> <<>>]

\* Lines 71-81 with the early return left out.
CacheLookupNeverHit(file, force) == [hit |-> FALSE, value |-> <<>>]

\* Lines 71-81: hit with the parsed sequence when the file exists, force is
\* off, json.load does not raise and what it gives is truthy.
CacheLookup(file, force) ==
    IF file.exists /\ ~force /\ JsonLoad(file.text).ok
                   /\ JsonLoad(file.text).value # <<>>
    THEN [hit |-> TRUE, value |-> JsonLoad(file.text).value]
    ELSE [hit |-> FALSE, value |-> <<>>]

\* force_reextract as main() reads it from the arguments after the URL.
ParseForce(args) == \E i \in DOMAIN args : args[i] = "--force"

ArgLists == {<<>>, <<"--force">>, <<"out">>, <<"out", "--force">>}

\* ---------------------------------------------------- the pager's decisions

\* Line 241 with "or" for "and".
StopConditionOr(stalls, captured) == stalls > PrimaryThreshold \/ captured > 0

\* if no_new_videos_count > 30 and len(all_video_urls) > 0: break
StopCondition(stalls, captured) == stalls > PrimaryThreshold /\ captured > 0

\* Line 250 with the recovery credit for the secondary threshold.
NeedsRecoveryAtCredit(stalls) == stalls >= RecoveryCredit

\* if no_new_videos_count > 15: (try the alternative navigation)
NeedsRecovery(stalls) == stalls > SecondaryThreshold

\* Line 185 with ">" for ">=".
LoginTimedOutStrict(waited) == waited > max_wait

\* if elapsed >= max_wait: (login timeout)
LoginTimedOut(waited) == waited >= max_wait

\* ------------------------------------------------------------------ state

VARIABLES
    urls_file,            \* downloads/video_urls.json: [exists, text]
    file_at_start,        \* history: urls_file when the command started
    command,              \* "download" or "test"
    force_reextract,
    pc,                   \* the await the task is suspended in
    browser,              \* "none", "open" or "closed"
    page_url,             \* page.url
    initial_url,          \* the detector's initial_url
    all_video_urls,       \* the capture map, in insertion order
    first_seen,           \* history: identifiers in order of first delivery
    video_data,
    elapsed,
    keyboard_nav_works,
    navigation_count,
    no_new_videos_count,
    last_video_count,
    signal,               \* the input signal the task's last step issued
    login_stayed,         \* history: every poll up to max_wait saw the boundary
    exit_status,          \* the command's exit status, -1 while it runs
    videos_dir,           \* the output files found or written in downloads/videos
    to_download,          \* run_download's list of (index, record) pairs
    download_pos,         \* how many items of to_download have been attempted
    failed_downloads,
    invoked,              \* download_video's invocations of yt-dlp for one item
    session_lost,         \* history: an awaited page operation found the session gone
    delivered             \* history: the responses delivered, where a run records them

vars == <<urls_file, file_at_start, command, force_reextract, pc, browser,
          page_url, initial_url, all_video_urls, first_seen, video_data,
          elapsed, keyboard_nav_works, navigation_count, no_new_videos_count,
          last_video_count, signal, login_stayed, exit_status, videos_dir,
          to_download, download_pos, failed_downloads, invoked, session_lost,
          delivered>>

\* What run_download keeps between its steps.
download_vars ==
    <<videos_dir, to_download, download_pos, failed_downloads, invoked>>

NoUrl == <<>>

AbsentFile == [exists |-> FALSE, text |-> <<>>]

\* A cache file an earlier run wrote for a course with one stream.
EarlierCapture == <<[video_id |-> <<"old999">>, url |-> MuxUrl("old999")]>>

ValidFile ==
    [exists |-> TRUE, text |-> JsonDump(ConvertToVideoData(EarlierCapture))]

\* What the cache file can be when a command starts: absent, cut short by an
\* interrupted write, an empty list, or an earlier run's records.
InitialFiles ==
    {AbsentFile,
     [exists |-> TRUE, text |-> <<"[", "{", "Lesson">>],
     [exists |-> TRUE, text |-> JsonDump(<<>>)],
     ValidFile}

Init ==
    /\ urls_file \in InitialFiles
    /\ file_at_start = urls_file
    /\ command = "none"
    /\ force_reextract = FALSE
    /\ pc = "idle"
    /\ browser = "none"
    /\ page_url = NoUrl
    /\ initial_url = NoUrl
    /\ all_video_urls = <<>>
    /\ first_seen = <<>>
    /\ video_data = <<>>
    /\ elapsed = 0
    /\ keyboard_nav_works = FALSE
    /\ navigation_count = 0
    /\ no_new_videos_count = 0
    /\ last_video_count = 0
    /\ signal = "none"
    /\ login_stayed = FALSE
    /\ exit_status = -1
    /\ videos_dir = {}
    /\ to_download = <<>>
    /\ download_pos = 0
    /\ failed_downloads = <<>>
    /\ invoked = <<>>
    /\ session_lost = FALSE
    /\ delivered = <<>>

\* The pcs at which page.on('response', handle_response) is in force.
SubscribedPcs ==
    {"navigate", "login_wait", "content_wait", "detect", "detect_back",
     "auto_settle", "auto_advance", "auto_focus", "auto_click", "auto_space",
     "manual_wait", "manual_probe", "closing"}

\* The awaits outside any try block: a failure of the browser session there
\* leaves extract_video_urls as an exception.
UnguardedPcs ==
    {"launch", "navigate", "login_wait", "content_wait", "detect",
     "detect_back", "auto_settle", "auto_advance", "auto_space"}

AutoPcs == {"auto_settle", "auto_advance", "auto_focus", "auto_click", "auto_space"}

ManualPcs == {"manual_wait", "manual_probe"}

\* The function's locals, dropped when it returns.
DropLocals ==
    /\ page_url' = NoUrl
    /\ initial_url' = NoUrl
    /\ all_video_urls' = <<>>
    /\ elapsed' = 0
    /\ keyboard_nav_works' = FALSE
    /\ navigation_count' = 0
    /\ no_new_videos_count' = 0
    /\ last_video_count' = 0
    /\ signal' = "none"

\* Lines 68-92 with the cache file removed at once when force is given.
StartClearsCacheOnForce(args) ==
    /\ pc = "idle"
    /\ force_reextract' = ParseForce(args)
    /\ urls_file' = IF ParseForce(args) THEN AbsentFile ELSE urls_file
    /\ LET found == CacheLookup(urls_file, ParseForce(args))
       IN  IF found.hit
           THEN /\ video_data' = found.value
                /\ pc' = "returned"
           ELSE /\ video_data' = <<>>
                /\ pc' = "launch"
    /\ UNCHANGED <<file_at_start, command, browser, page_url,
                   initial_url, all_video_urls, first_seen, elapsed,
                   keyboard_nav_works,
                   navigation_count, no_new_videos_count, last_video_count,
                   signal, login_stayed, exit_status>>
    /\ UNCHANGED download_vars
    /\ UNCHANGED session_lost
    /\ UNCHANGED delivered

\* main() and extract_video_urls, lines 68-92: the cache check, then either
\* the early return or the start of the browser launch.  Both commands call
\* extract_video_urls first and pass it nothing but the force flag, so which
\* of them is running is recorded where their code parts, after the return.
Start(args) ==
    /\ pc = "idle"
    /\ force_reextract' = ParseForce(args)
    /\ LET found == CacheLookup(urls_file, ParseForce(args))
       IN  IF found.hit
           THEN /\ video_data' = found.value
                /\ pc' = "returned"
           ELSE /\ video_data' = <<>>
                /\ pc' = "launch"
    /\ UNCHANGED <<urls_file, file_at_start, command, browser, page_url,
                   initial_url, all_video_urls, first_seen, elapsed,
                   keyboard_nav_works,
                   navigation_count, no_new_videos_count, last_video_count,
                   signal, login_stayed, exit_status>>
    /\ UNCHANGED download_vars
    /\ UNCHANGED session_lost
    /\ UNCHANGED delivered

\* Lines 94-124: the browser is up, the capture map is empty, the callback is
\* subscribed and the navigation to the course is under way.
Launch ==
    /\ pc = "launch"
    /\ browser' = "open"
    /\ all_video_urls' = <<>>
    /\ video_data' = <<>>
    /\ pc' = "navigate"
    /\ UNCHANGED <<urls_file, file_at_start, command, force_reextract, page_url,
                   initial_url, first_seen, elapsed, keyboard_nav_works,
                   navigation_count, no_new_videos_count, last_video_count,
                   signal, login_stayed, exit_status>>
    /\ UNCHANGED download_vars
    /\ UNCHANGED session_lost
    /\ UNCHANGED delivered

\* The callback of lines 112-119 on one response, while the task is suspended.
Callback(url) ==
    /\ pc \in SubscribedPcs
    /\ all_video_urls' = handle_response(all_video_urls, url)
    /\ first_seen' = IF IsManifest(url)
                        /\ \A i \in DOMAIN first_seen : first_seen[i] # VideoId(url)
                     THEN Append(first_seen, VideoId(url))
                     ELSE first_seen
    /\ UNCHANGED <<urls_file, file_at_start, command, force_reextract, pc,
                   browser, page_url, initial_url, video_data, elapsed,
                   keyboard_nav_works, navigation_count, no_new_videos_count,
                   last_video_count, signal, login_stayed, exit_status>>
    /\ UNCHANGED download_vars
    /\ UNCHANGED session_lost

\* A response is delivered to the callback.
HandleResponse(url) ==
    /\ Callback(url)
    /\ UNCHANGED delivered

\* Lines 124-168: the navigation (through the course iframe when the page has
\* one) and the waits are over; landed is page.url at line 165.
Navigate(landed) ==
    /\ pc = "navigate"
    /\ page_url' = landed
    /\ elapsed' = 0
    /\ pc' = IF IsLoginBoundary(landed) THEN "login_wait" ELSE "content_wait"
    /\ UNCHANGED <<urls_file, file_at_start, command, force_reextract, browser,
                   initial_url, all_video_urls, first_seen, video_data,
                   keyboard_nav_works, navigation_count, no_new_videos_count,
                   last_video_count, signal, login_stayed, exit_status>>
    /\ UNCHANGED download_vars
    /\ UNCHANGED session_lost
    /\ UNCHANGED delivered

\* Lines 173-188: one poll of the login wait; seen is page.url at line 177.
\* The loop ends by the break or by its condition, and line 185 follows at
\* once: on a timeout the browser is closed and [] returned.
LoginPoll(seen) ==
    /\ pc = "login_wait"
    /\ page_url' = seen
    /\ login_stayed' = (IsLoginBoundary(seen)
                          /\ elapsed + LoginPollSeconds >= max_wait)
    /\ LET waited == elapsed + LoginPollSeconds
           left == ~IsLoginBoundary(seen)
       IN  IF ~left /\ waited < max_wait
           THEN /\ elapsed' = waited
                /\ pc' = "login_wait"
                /\ UNCHANGED <<browser, video_data>>
           ELSE IF LoginTimedOut(waited)
           THEN /\ elapsed' = 0
                /\ browser' = "closed"
                /\ video_data' = <<>>
                /\ pc' = "returned"
           ELSE /\ elapsed' = 0
                /\ pc' = "content_wait"
                /\ UNCHANGED <<browser, video_data>>
    /\ UNCHANGED <<urls_file, file_at_start, command, force_reextract,
                   initial_url, all_video_urls, first_seen, keyboard_nav_works,
                   navigation_count, no_new_videos_count, last_video_count,
                   signal, exit_status>>
    /\ UNCHANGED download_vars
    /\ UNCHANGED session_lost
    /\ UNCHANGED delivered

\* Lines 190-199: the content wait is over; the detector records the location
\* and presses ArrowRight.
DetectorProbe ==
    /\ pc = "content_wait"
    /\ initial_url' = page_url
    /\ signal' = "ArrowRight"
    /\ pc' = "detect"
    /\ UNCHANGED <<urls_file, file_at_start, command, force_reextract, browser,
                   page_url, all_video_urls, first_seen, video_data, elapsed,
                   keyboard_nav_works, navigation_count, no_new_videos_count,
                   last_video_count, login_stayed, exit_status>>
    /\ UNCHANGED download_vars
    /\ UNCHANGED session_lost
    /\ UNCHANGED delivered

\* Lines 200-218 with line 202 as "keyboard_nav_works = True": the automatic
\* strategy whatever the location.
DetectorDecideAlwaysAuto(now) ==
    /\ pc = "detect"
    /\ page_url' = now
    /\ keyboard_nav_works' = TRUE
    /\ navigation_count' = 0
    /\ no_new_videos_count' = 0
    /\ last_video_count' = 0
    /\ elapsed' = 0
    /\ signal' = "ArrowLeft"
    /\ pc' = "detect_back"
    /\ UNCHANGED <<urls_file, file_at_start, command, force_reextract, browser,
                   initial_url, all_video_urls, first_seen, video_data,
                   login_stayed, exit_status>>
    /\ UNCHANGED download_vars
    /\ UNCHANGED session_lost
    /\ UNCHANGED delivered

\* Lines 200-218 and 268-281: after the settle delay, now is page.url at line
\* 202.  A changed location chooses the automatic strategy and presses
\* ArrowLeft; an unchanged one chooses manual monitoring, whose clock starts.
DetectorDecide(now) ==
    /\ pc = "detect"
    /\ page_url' = now
    /\ keyboard_nav_works' = (now # initial_url)
    /\ navigation_count' = 0
    /\ no_new_videos_count' = 0
    /\ last_video_count' = 0
    /\ elapsed' = 0
    /\ IF now # initial_url
       THEN /\ signal' = "ArrowLeft"
            /\ pc' = "detect_back"
       ELSE /\ signal' = "none"
            /\ pc' = "manual_wait"
    /\ UNCHANGED <<urls_file, file_at_start, command, force_reextract, browser,
                   initial_url, all_video_urls, first_seen, video_data,
                   login_stayed, exit_status>>
    /\ UNCHANGED download_vars
    /\ UNCHANGED session_lost
    /\ UNCHANGED delivered

\* Lines 316-331 with only the entries a comparison of the pager has counted
\* (the first last_video_count of them) converted and written.
FinalizeComparedOnly ==
    /\ video_data' =
           ConvertToVideoData(SubSeq(all_video_urls, 1, last_video_count))
    /\ urls_file' =
           [exists |-> TRUE,
            text |-> JsonDump(ConvertToVideoData(
                         SubSeq(all_video_urls, 1, last_video_count)))]
    /\ pc' = "closing"

\* Lines 316-331: the records are built from the capture map, the cache file
\* is written and browser.close() is awaited.
Finalize ==
    /\ video_data' = ConvertToVideoData(all_video_urls)
    /\ urls_file' = [exists |-> TRUE,
                     text |-> JsonDump(ConvertToVideoData(all_video_urls))]
    /\ pc' = "closing"

\* Line 224 as "while True:": the loop goes on with no count of iterations.
NextAttemptUncounted ==
    /\ pc' = "auto_settle"
    /\ UNCHANGED <<navigation_count, urls_file, video_data>>

\* Lines 224-228: the next iteration of "for attempt in range(max_attempts)"
\* starts and waits for its settle delay, or the range is used up and the
\* loop ends.
NextAttempt ==
    IF navigation_count < max_attempts
    THEN /\ navigation_count' = navigation_count + 1
         /\ pc' = "auto_settle"
         /\ UNCHANGED <<urls_file, video_data>>
    ELSE /\ Finalize
         /\ UNCHANGED navigation_count

\* Lines 206-228: ArrowLeft and its wait are over; the first iteration starts.
DetectorBack ==
    /\ pc = "detect_back"
    /\ signal' = "none"
    /\ NextAttempt
    /\ UNCHANGED <<file_at_start, command, force_reextract, browser, page_url,
                   initial_url, all_video_urls, first_seen, elapsed,
                   keyboard_nav_works, no_new_videos_count, last_video_count,
                   login_stayed, exit_status>>
    /\ UNCHANGED download_vars
    /\ UNCHANGED session_lost
    /\ UNCHANGED delivered

\* Lines 228-247: the settle delay is over; the capture count is compared with
\* the last one seen, then the loop breaks or ArrowRight is pressed.
AutoSettle ==
    /\ pc = "auto_settle"
    /\ LET found == Len(all_video_urls) > last_video_count
           stalls == IF found THEN 0 ELSE no_new_videos_count + 1
       IN  /\ last_video_count' = IF found THEN Len(all_video_urls)
                                  ELSE last_video_count
           /\ no_new_videos_count' = stalls
           /\ IF StopCondition(stalls, Len(all_video_urls))
              THEN /\ Finalize
                   /\ signal' = "none"
              ELSE /\ signal' = "ArrowRight"
                   /\ pc' = "auto_advance"
                   /\ UNCHANGED <<urls_file, video_data>>
    /\ UNCHANGED <<file_at_start, command, force_reextract, browser, page_url,
                   initial_url, all_video_urls, first_seen, elapsed,
                   keyboard_nav_works, navigation_count, login_stayed,
                   exit_status>>
    /\ UNCHANGED download_vars
    /\ UNCHANGED session_lost
    /\ UNCHANGED delivered

\* Lines 224-255 without the wait of line 228: when the key press is over the
\* next iteration compares the capture count at once and presses again.
AutoAdvanceNoSettle ==
    /\ pc = "auto_advance"
    /\ IF navigation_count < max_attempts
       THEN /\ navigation_count' = navigation_count + 1
            /\ last_video_count' = IF Len(all_video_urls) > last_video_count
                                   THEN Len(all_video_urls) ELSE last_video_count
            /\ no_new_videos_count' = IF Len(all_video_urls) > last_video_count
                                      THEN 0 ELSE no_new_videos_count + 1
            /\ signal' = "ArrowRight"
            /\ pc' = "auto_advance"
            /\ UNCHANGED <<urls_file, video_data>>
       ELSE /\ Finalize
            /\ signal' = "none"
            /\ UNCHANGED <<navigation_count, last_video_count,
                           no_new_videos_count>>
    /\ UNCHANGED <<file_at_start, command, force_reextract, browser, page_url,
                   initial_url, all_video_urls, first_seen, elapsed,
                   keyboard_nav_works, login_stayed, exit_status>>
    /\ UNCHANGED download_vars
    /\ UNCHANGED session_lost
    /\ UNCHANGED delivered

\* Lines 247-255: the key press is over; a long stall starts the alternative
\* navigation with its query for a video element, otherwise the iteration ends.
AutoAdvance ==
    /\ pc = "auto_advance"
    /\ signal' = "none"
    /\ IF NeedsRecovery(no_new_videos_count)
       THEN /\ pc' = "auto_focus"
            /\ UNCHANGED <<urls_file, video_data, navigation_count>>
       ELSE NextAttempt
    /\ UNCHANGED <<file_at_start, command, force_reextract, browser, page_url,
                   initial_url, all_video_urls, first_seen, elapsed,
                   keyboard_nav_works, no_new_videos_count, last_video_count,
                   login_stayed, exit_status>>
    /\ UNCHANGED download_vars
    /\ UNCHANGED session_lost
    /\ UNCHANGED delivered

\* Lines 255-263: the query gives an element, which is clicked, or it gives
\* none or raises (caught at 259), and Space is pressed.
AutoFocus(outcome) ==
    /\ pc = "auto_focus"
    /\ IF outcome = "element"
       THEN /\ signal' = "click"
            /\ pc' = "auto_click"
       ELSE /\ signal' = "Space"
            /\ pc' = "auto_space"
    /\ UNCHANGED <<urls_file, file_at_start, command, force_reextract, browser,
                   page_url, initial_url, all_video_urls, first_seen,
                   video_data, elapsed, keyboard_nav_works, navigation_count,
                   no_new_videos_count, last_video_count, login_stayed,
                   exit_status>>
    /\ UNCHANGED download_vars
    /\ UNCHANGED session_lost
    /\ UNCHANGED delivered

\* Lines 257-263: the click and its wait are over, or one of them raised
\* (caught at 259); Space is pressed.
AutoClick ==
    /\ pc = "auto_click"
    /\ signal' = "Space"
    /\ pc' = "auto_space"
    /\ UNCHANGED <<urls_file, file_at_start, command, force_reextract, browser,
                   page_url, initial_url, all_video_urls, first_seen,
                   video_data, elapsed, keyboard_nav_works, navigation_count,
                   no_new_videos_count, last_video_count, login_stayed,
                   exit_status>>
    /\ UNCHANGED download_vars
    /\ UNCHANGED session_lost
    /\ UNCHANGED delivered

\* Lines 263-267: Space and its wait are over; the stall counter is set back
\* and the iteration ends.
AutoSpace ==
    /\ pc = "auto_space"
    /\ signal' = "none"
    /\ no_new_videos_count' = RecoveryCredit
    /\ NextAttempt
    /\ UNCHANGED <<file_at_start, command, force_reextract, browser, page_url,
                   initial_url, all_video_urls, first_seen, elapsed,
                   keyboard_nav_works, last_video_count, login_stayed,
                   exit_status>>
    /\ UNCHANGED download_vars
    /\ UNCHANGED session_lost
    /\ UNCHANGED delivered

\* Lines 285-294: one poll of manual monitoring.  The wait raises when the
\* session is gone (caught at 308); otherwise the capture count is compared
\* and the liveness probe page.evaluate("1") is awaited.
ManualWait(alive) ==
    /\ pc = "manual_wait"
    /\ signal' = "none"
    /\ IF alive
       THEN /\ last_video_count' =
                   IF Len(all_video_urls) > last_video_count
                   THEN Len(all_video_urls) ELSE last_video_count
            /\ pc' = "manual_probe"
            /\ UNCHANGED <<urls_file, video_data>>
       ELSE /\ Finalize
            /\ UNCHANGED last_video_count
    /\ UNCHANGED <<file_at_start, command, force_reextract, browser, page_url,
                   initial_url, all_video_urls, first_seen, elapsed,
                   keyboard_nav_works, navigation_count, no_new_videos_count,
                   login_stayed, exit_status>>
    /\ UNCHANGED download_vars
    /\ session_lost' = ~alive
    /\ UNCHANGED delivered

\* Lines 295-297 with the break left out: the loop goes on polling.
ProbeFailedGoesOn ==
    /\ pc' = "manual_wait"
    /\ UNCHANGED <<urls_file, video_data, elapsed>>

\* Lines 293-297 without the try: the probe's exception ends the run.
ProbeFailedRaises ==
    /\ pc' = "exited"
    /\ UNCHANGED <<urls_file, video_data, elapsed>>

\* Lines 295-297: the probe raised, the loop breaks and finalization follows.
ProbeFailed ==
    /\ Finalize
    /\ UNCHANGED elapsed

\* Lines 293-307: the probe raises when the session is gone (break at 297);
\* otherwise the time since start_time is read and the loop ends once it is
\* more than 600 seconds.
ManualProbe(alive) ==
    /\ pc = "manual_probe"
    /\ signal' = "none"
    /\ IF alive
       THEN /\ elapsed' = elapsed + ManualPollSeconds
            /\ IF elapsed + ManualPollSeconds > ManualTimeout
               THEN Finalize
               ELSE /\ pc' = "manual_wait"
                    /\ UNCHANGED <<urls_file, video_data>>
       ELSE ProbeFailed
    /\ UNCHANGED <<file_at_start, command, force_reextract, browser, page_url,
                   initial_url, all_video_urls, first_seen, keyboard_nav_works,
                   navigation_count, no_new_videos_count, last_video_count,
                   login_stayed, exit_status>>
    /\ UNCHANGED download_vars
    /\ session_lost' = ~alive
    /\ UNCHANGED delivered

\* Lines 330-336: browser.close() is over (or raised, caught at 332) and
\* video_data is returned.
CloseAndReturn ==
    /\ pc = "closing"
    /\ browser' = "closed"
    /\ pc' = "returned"
    /\ DropLocals
    /\ UNCHANGED <<urls_file, file_at_start, command, force_reextract,
                   first_seen, video_data, login_stayed, exit_status>>
    /\ UNCHANGED download_vars
    /\ UNCHANGED session_lost
    /\ UNCHANGED delivered

\* The browser session fails (closed window, crash) while the task is in an
\* await outside any try block: the exception leaves extract_video_urls, the
\* command and main(), and the interpreter exits with status 1.
SessionLost ==
    /\ pc \in UnguardedPcs
    /\ browser' = "closed"
    /\ pc' = "exited"
    /\ exit_status' = 1
    /\ DropLocals
    /\ UNCHANGED <<urls_file, file_at_start, command, force_reextract,
                   first_seen, video_data, login_stayed>>
    /\ UNCHANGED download_vars
    /\ session_lost' = TRUE
    /\ UNCHANGED delivered

\* run_test, lines 501-525, and test_command's exit status.
RunTest ==
    /\ pc = "returned"
    /\ command' = "test"
    /\ exit_status' = IF video_data = <<>> THEN 1 ELSE 0
    /\ pc' = "exited"
    /\ UNCHANGED <<urls_file, file_at_start, force_reextract, browser,
                   page_url, initial_url, all_video_urls, first_seen,
                   video_data, elapsed, keyboard_nav_works, navigation_count,
                   no_new_videos_count, last_video_count, signal, login_stayed>>
    /\ UNCHANGED download_vars
    /\ UNCHANGED session_lost
    /\ UNCHANGED delivered

\* run_download, lines 436-440: nothing extracted, the command fails.
RunDownloadEmpty ==
    /\ pc = "returned"
    /\ video_data = <<>>
    /\ command' = "download"
    /\ exit_status' = 1
    /\ pc' = "exited"
    /\ UNCHANGED <<urls_file, file_at_start, force_reextract, browser,
                   page_url, initial_url, all_video_urls, first_seen,
                   video_data, elapsed, keyboard_nav_works, navigation_count,
                   no_new_videos_count, last_video_count, signal, login_stayed>>
    /\ UNCHANGED download_vars
    /\ UNCHANGED session_lost
    /\ UNCHANGED delivered

\* The items the scan of lines 446-455 finds missing on disk, in index order.
MissingItems(data, disk) ==
    LET idx == SelectSeq([i \in DOMAIN data |-> i],
                         LAMBDA i : OutputPath(i, data[i].title) \notin disk)
    IN  [k \in DOMAIN idx |-> [index |-> idx[k], video_info |-> data[idx[k]]]]

\* run_download, lines 442-470: the scan of the videos directory; disk is
\* what it finds there, left by earlier runs.  With nothing to download the
\* command succeeds at once.
RunDownloadScan(disk) ==
    /\ pc = "returned"
    /\ video_data # <<>>
    /\ command' = "download"
    /\ videos_dir' = disk
    /\ to_download' = MissingItems(video_data, disk)
    /\ download_pos' = 0
    /\ failed_downloads' = <<>>
    /\ invoked' = <<>>
    /\ IF MissingItems(video_data, disk) = <<>>
       THEN /\ exit_status' = 0
            /\ pc' = "exited"
       ELSE /\ exit_status' = exit_status
            /\ pc' = "downloading"
    /\ UNCHANGED <<urls_file, file_at_start, force_reextract, browser,
                   page_url, initial_url, all_video_urls, first_seen,
                   video_data, elapsed, keyboard_nav_works, navigation_count,
                   no_new_videos_count, last_video_count, signal, login_stayed>>
    /\ UNCHANGED session_lost
    /\ UNCHANGED delivered

\* format_options, lines 357-363, in their order of preference.
FormatOptions ==
    <<"best[ext=mp4]/best",
      "best",
      "bestvideo+bestaudio/best",
      "bestvideo[ext=mp4]+bestaudio[ext=m4a]/best[ext=mp4]/best",
      "bestvideo*+bestaudio/best">>

\* fallback_cmd, lines 405-416: no -f option, the output merged into mp4.
FallbackCommand == "--merge-output-format mp4"

\* How an invocation of yt-dlp can end: exit status 0; a non-zero status with
\* "Requested format is not available" in stderr; a non-zero status with
\* another error; subprocess.run raising.
Outcomes == {"zero", "unavailable", "error", "exception"}

\* The k-th invocation of download_video: the format options in turn, then
\* the fallback command; --concurrent-fragments goes with a format option
\* when the URL holds '.m3u8' (lines 381-382).
Invocation(k, url) ==
    IF k <= Len(FormatOptions)
    THEN [format |-> FormatOptions[k], fragments |-> Contains(url, ".m3u8"),
          exit |-> "running"]
    ELSE [format |-> FallbackCommand, fragments |-> FALSE, exit |-> "running"]

\* Lines 384-427 with the "continue" of line 398 as "return False".
AfterInvocationGivesUpOnError(k, outcome) ==
    IF k <= Len(FormatOptions)
    THEN CASE outcome = "zero" -> "return_true"
           [] outcome = "error" -> "return_false"
           [] OTHER -> "continue"
    ELSE IF outcome = "zero" THEN "return_true" ELSE "return_false"

\* Lines 384-427: what download_video does when its k-th invocation has
\* ended.  In the loop over the format options a zero status returns True;
\* an unavailable format continues, or for the last option falls out of the
\* if; another error and an exception continue: each way the next option or,
\* after the last, the fallback command is invoked.  The fallback command
\* returns True on a zero status and False otherwise.
AfterInvocation(k, outcome) ==
    IF k <= Len(FormatOptions)
    THEN CASE outcome = "zero" -> "return_true"
           [] outcome = "unavailable" ->
                  IF FormatOptions[k] # FormatOptions[Len(FormatOptions)]
                  THEN "continue" ELSE "loop_ends"
           [] OTHER -> "continue"
    ELSE IF outcome = "zero" THEN "return_true" ELSE "return_false"

\* Lines 473-474 with the list started anew at each failure.
RecordFailureLatestOnly(failed, video_info, success) ==
    IF success THEN failed ELSE <<video_info>>

\* Lines 473-474: an item whose download failed is added to the failure list.
RecordFailure(failed, video_info, success) ==
    IF success THEN failed ELSE Append(failed, video_info)

\* Lines 492 and 532 with the failure list ignored.
DownloadExitAlwaysZero(failed) == 0

\* Lines 492 and 532: run_download's result as download_command's exit status.
DownloadExit(failed) == IF Len(failed) = 0 THEN 0 ELSE 1

\* run_download, lines 471-492: download_video on the next item has
\* returned, with success and the output file on disk, or with failure; after
\* the last item the command's exit status is 0 when nothing failed.
DownloadNext(success) ==
    /\ pc \in {"downloading", "invoking"}
    /\ LET item == to_download[download_pos + 1]
           failed == RecordFailure(failed_downloads, item.video_info, success)
       IN  /\ videos_dir' =
                  IF success
                  THEN videos_dir \cup {OutputPath(item.index, item.video_info.title)}
                  ELSE videos_dir
           /\ failed_downloads' = failed
           /\ download_pos' = download_pos + 1
           /\ IF download_pos + 1 = Len(to_download)
              THEN /\ exit_status' = DownloadExit(failed)
                   /\ pc' = "exited"
              ELSE /\ exit_status' = exit_status
                   /\ pc' = "downloading"
    /\ UNCHANGED <<urls_file, file_at_start, command, force_reextract, browser,
                   page_url, initial_url, all_video_urls, first_seen,
                   video_data, elapsed, keyboard_nav_works, navigation_count,
                   no_new_videos_count, last_video_count, signal, login_stayed,
                   to_download>>
    /\ UNCHANGED session_lost
    /\ UNCHANGED delivered

\* Lines 472 and 340-385: run_download calls download_video on the next
\* item; present says whether output_path.exists() at line 350 (the file has
\* appeared since the scan).  A file that is there returns True at once;
\* otherwise yt-dlp is invoked with the first format option.
DownloadVideoCall(present) ==
    /\ pc = "downloading"
    /\ IF present
       THEN /\ DownloadNext(TRUE)
            /\ invoked' = <<>>
       ELSE /\ invoked' =
                   <<Invocation(1, to_download[download_pos + 1].video_info.url)>>
            /\ pc' = "invoking"
            /\ UNCHANGED <<urls_file, file_at_start, command, force_reextract,
                           browser, page_url, initial_url, all_video_urls,
                           first_seen, video_data, elapsed, keyboard_nav_works,
                           navigation_count, no_new_videos_count,
                           last_video_count, signal, login_stayed, exit_status,
                           videos_dir, to_download, download_pos,
                           failed_downloads, session_lost, delivered>>

\* Lines 385-427: the invocation under way ends with outcome; download_video
\* returns, or invokes yt-dlp again.
InvocationEnds(outcome) ==
    /\ pc = "invoking"
    /\ LET k == Len(invoked)
           ended == [invoked EXCEPT ![k].exit =
                        IF outcome = "zero" THEN "zero" ELSE "failed"]
           then == AfterInvocation(k, outcome)
       IN  CASE then = "return_true" ->
                    /\ DownloadNext(TRUE)
                    /\ invoked' = ended
             [] then = "return_false" ->
                    /\ DownloadNext(FALSE)
                    /\ invoked' = ended
             [] OTHER ->
                    /\ invoked' = Append(ended,
                           Invocation(k + 1,
                               to_download[download_pos + 1].video_info.url))
                    /\ UNCHANGED <<urls_file, file_at_start, command,
                                   force_reextract, pc, browser, page_url,
                                   initial_url, all_video_urls, first_seen,
                                   video_data, elapsed, keyboard_nav_works,
                                   navigation_count, no_new_videos_count,
                                   last_video_count, signal, login_stayed,
                                   exit_status, videos_dir, to_download,
                                   download_pos, failed_downloads,
                                   session_lost, delivered>>

Next ==
    \/ \E args \in ArgLists : Start(args)
    \/ Launch
    \/ \E url \in ResponseUrls : HandleResponse(url)
    \/ \E landed \in {LoginUrl, SigninUrl, LessonUrl(1)} : Navigate(landed)
    \/ \E seen \in {page_url, LessonUrl(1)} : LoginPoll(seen)
    \/ DetectorProbe
    \/ \E now \in {page_url, LessonUrl(2)} : DetectorDecide(now)
    \/ DetectorBack
    \/ AutoSettle
    \/ AutoAdvance
    \/ \E outcome \in {"element", "nothing"} : AutoFocus(outcome)
    \/ AutoClick
    \/ AutoSpace
    \/ \E alive \in BOOLEAN : ManualWait(alive)
    \/ \E alive \in BOOLEAN : ManualProbe(alive)
    \/ CloseAndReturn
    \/ SessionLost
    \/ RunTest
    \/ RunDownloadEmpty
    \/ \E disk \in SUBSET {OutputPath(i, video_data[i].title) : i \in DOMAIN video_data} :
           RunDownloadScan(disk)
    \/ \E present \in BOOLEAN : DownloadVideoCall(present)
    \/ \E outcome \in Outcomes : InvocationEnds(outcome)

Spec == Init /\ [][Next]_vars

\* A step of the task between the detector's choice and the return: the
\* await it is suspended in ends, by completing or by raising.
PagerStep ==
    \/ DetectorBack
    \/ AutoSettle
    \/ AutoAdvance
    \/ \E outcome \in {"element", "nothing"} : AutoFocus(outcome)
    \/ AutoClick
    \/ AutoSpace
    \/ \E alive \in BOOLEAN : ManualWait(alive)
    \/ \E alive \in BOOLEAN : ManualProbe(alive)
    \/ CloseAndReturn
    \/ SessionLost

\* The event loop resumes the task whenever the timer or the page operation
\* it awaits is over, and each of these awaits ends: the waits after their
\* delay, the page operations by a reply or by an error.
SpecFair == Spec /\ WF_vars(PagerStep)

\* ------------------------------------------- the observer, with its inputs

\* How many responses a recorded run delivers (a bound of the model).
MaxDeliveries == 4

\* Manual monitoring has just started: the state after Start, Launch,
\* Navigate to the first lesson, DetectorProbe and a DetectorDecide that saw
\* no change of location, with nothing captured yet.
InitObserver ==
    /\ urls_file = AbsentFile
    /\ file_at_start = AbsentFile
    /\ command = "none"
    /\ force_reextract = FALSE
    /\ pc = "manual_wait"
    /\ browser = "open"
    /\ page_url = LessonUrl(1)
    /\ initial_url = LessonUrl(1)
    /\ all_video_urls = <<>>
    /\ first_seen = <<>>
    /\ video_data = <<>>
    /\ elapsed = 0
    /\ keyboard_nav_works = FALSE
    /\ navigation_count = 0
    /\ no_new_videos_count = 0
    /\ last_video_count = 0
    /\ signal = "none"
    /\ login_stayed = FALSE
    /\ exit_status = -1
    /\ videos_dir = {}
    /\ to_download = <<>>
    /\ download_pos = 0
    /\ failed_downloads = <<>>
    /\ invoked = <<>>
    /\ session_lost = FALSE
    /\ delivered = <<>>

\* A response is delivered to the callback during monitoring, and recorded.
ObserveResponse(url) ==
    /\ pc \in ManualPcs
    /\ Len(delivered) < MaxDeliveries
    /\ Callback(url)
    /\ delivered' = Append(delivered, url)

\* The user closes the window during the first wait.
WindowClosed == ManualWait(FALSE)

NextObserver ==
    \/ \E url \in ResponseUrls : ObserveResponse(url)
    \/ WindowClosed
    \/ CloseAndReturn

\* Manual monitoring with every delivered response recorded, ended by the
\* user closing the window.
SpecObserver == InitObserver /\ [][NextObserver]_vars

\* ------------------------------------------------ the pager, left in quiet

\* The last iteration of the pager in which responses still arrive (a bound
\* of the model).
CaptureWindow == 3

\* The automatic strategy has just been chosen: the state after Start,
\* Launch, Navigate to the first lesson, DetectorProbe and a DetectorDecide
\* that saw the location change, with nothing captured yet.
InitPager ==
    /\ urls_file = AbsentFile
    /\ file_at_start = AbsentFile
    /\ command = "none"
    /\ force_reextract = FALSE
    /\ pc = "detect_back"
    /\ browser = "open"
    /\ page_url = LessonUrl(2)
    /\ initial_url = LessonUrl(1)
    /\ all_video_urls = <<>>
    /\ first_seen = <<>>
    /\ video_data = <<>>
    /\ elapsed = 0
    /\ keyboard_nav_works = TRUE
    /\ navigation_count = 0
    /\ no_new_videos_count = 0
    /\ last_video_count = 0
    /\ signal = "ArrowLeft"
    /\ login_stayed = FALSE
    /\ exit_status = -1
    /\ videos_dir = {}
    /\ to_download = <<>>
    /\ download_pos = 0
    /\ failed_downloads = <<>>
    /\ invoked = <<>>
    /\ session_lost = FALSE
    /\ delivered = <<>>

\* A response is delivered during one of the first iterations.
EarlyResponse(url) ==
    /\ navigation_count <= CaptureWindow
    /\ pc # "closing"
    /\ HandleResponse(url)

NextPager ==
    \/ \E url \in ResponseUrls : EarlyResponse(url)
    \/ DetectorBack
    \/ AutoSettle
    \/ AutoAdvance
    \/ \E outcome \in {"element", "nothing"} : AutoFocus(outcome)
    \/ AutoClick
    \/ AutoSpace
    \/ CloseAndReturn

\* The automatic pager on a course whose streams are all captured by the
\* first iterations, after which no response arrives and the session lasts.
SpecPager == InitPager /\ [][NextPager]_vars

\* ------------------------------------------------- one run after another

\* The command has exited and the user starts another one: a new process,
\* which finds the cache file as the earlier one left it.  Only the run that
\* found no cache file is followed by another.
NextRun ==
    /\ pc = "exited"
    /\ ~file_at_start.exists
    /\ pc' = "idle"
    /\ file_at_start' = urls_file
    /\ command' = "none"
    /\ force_reextract' = FALSE
    /\ browser' = "none"
    /\ first_seen' = <<>>
    /\ video_data' = <<>>
    /\ login_stayed' = FALSE
    /\ exit_status' = -1
    /\ videos_dir' = {}
    /\ to_download' = <<>>
    /\ download_pos' = 0
    /\ failed_downloads' = <<>>
    /\ invoked' = <<>>
    /\ session_lost' = FALSE
    /\ UNCHANGED <<urls_file, page_url, initial_url, all_video_urls, elapsed,
                   keyboard_nav_works, navigation_count, no_new_videos_count,
                   last_video_count, signal, delivered>>

NextRerun ==
    \/ NextObserver
    \/ RunTest
    \/ NextRun
    \/ \E args \in ArgLists : Start(args)
    \/ Launch

\* The test command twice: a first run with manual monitoring and every
\* delivered response recorded, and a second one up to its cache check and
\* launch.
SpecRerun == InitObserver /\ [][NextRerun]_vars

\* ---------------------------------------------------------------- claims

AfterReturnPcs == {"returned", "downloading", "invoking", "exited"}

\* The capture map has no identifier twice.
KeysDistinct ==
    \A i, j \in DOMAIN all_video_urls :
        all_video_urls[i].video_id = all_video_urls[j].video_id => i = j

\* The positions of delivered at which a manifest brings an identifier that
\* no earlier manifest brought.
FirstDeliveries ==
    {i \in DOMAIN delivered :
        /\ IsManifest(delivered[i])
        /\ \A j \in 1..(i - 1) :
               IsManifest(delivered[j]) => VideoId(delivered[j]) # VideoId(delivered[i])}

\* The cache file holds a non-empty sequence.
ValidCache(file) ==
    file.exists /\ JsonLoad(file.text).ok /\ JsonLoad(file.text).value # <<>>

\* C1: whatever responses were delivered, in whatever order and however
\* often, the capture map holds each identifier once, it holds as many entries
\* as distinct identifiers were delivered, and the URL stored for an
\* identifier is that of the first response that carried it: a later response
\* with the same identifier changes neither the URL nor the count.
C1_FirstResponseKept ==
    pc \in ManualPcs =>
        /\ KeysDistinct
        /\ Len(all_video_urls) = Cardinality(FirstDeliveries)
        /\ \A i \in FirstDeliveries :
               \E k \in DOMAIN all_video_urls :
                   all_video_urls[k] =
                       [video_id |-> VideoId(delivered[i]), url |-> delivered[i]]

\* Stream 1, stream 2, then stream 1 again under another URL: two entries.
C1_Witness ==
    /\ pc = "manual_wait"
    /\ delivered = <<MuxUrl(StreamIds[1]), MuxUrl(StreamIds[2]),
                     MuxUrl(StreamIds[1]) \o <<"?", "token=t2">> >>
    /\ Len(all_video_urls) = 2
    /\ all_video_urls[1].url = MuxUrl(StreamIds[1])

\* C2 (as claimed): the automatic pager is done only with the stall counter
\* above the primary threshold; with a stream captured it is never done while
\* the counter is at or below 30.
C2_DoneOnlyPastPrimary ==
    (pc = "closing" /\ keyboard_nav_works /\ Len(video_data) >= 1)
        => no_new_videos_count > PrimaryThreshold

\* C3 (as claimed): with a stream captured and no further capture arriving,
\* the automatic pager ends by quiescence, the stall counter above 30, before
\* the 150 iterations are used up.
C3_StopsByQuiescence ==
    (pc = "closing" /\ keyboard_nav_works /\ Len(video_data) >= 1)
        => /\ no_new_videos_count > PrimaryThreshold
           /\ navigation_count < max_attempts

\* C4: the automatic pager goes from its loop to finalization exactly when
\* the stall counter is above 30 with a stream captured, or 150 iterations
\* have run: a step that ends the loop has one of the two, a step that stays
\* in the loop after the comparison has not the first, and a step that starts
\* an iteration has not the second.  With the capture map empty the loop ends
\* only at the cap.
C4_LoopExit ==
    [][ /\ (pc \in AutoPcs /\ pc' = "closing")
            => \/ /\ pc = "auto_settle"
                  /\ no_new_videos_count' > 30
                  /\ Len(all_video_urls) > 0
               \/ /\ pc \in {"auto_advance", "auto_space"}
                  /\ navigation_count = 150
        /\ (pc = "auto_settle" /\ pc' \in AutoPcs)
            => ~(no_new_videos_count' > 30 /\ Len(all_video_urls) > 0)
        /\ (pc \in AutoPcs /\ pc' = "auto_settle" /\ pc # "auto_settle")
            => navigation_count < 150 /\ navigation_count' = navigation_count + 1
      ]_vars

\* The loop has ended at the cap with nothing captured.
C4_Witness ==
    /\ pc = "closing"
    /\ keyboard_nav_works
    /\ all_video_urls = <<>>
    /\ navigation_count = 150

\* C5: when finalization has run, video_data has one record for each
\* identifier delivered, the record at position k has index k and the
\* identifier that was the k-th to be delivered for the first time, with the
\* URL of that first delivery.
C5_RecordsInDiscoveryOrder ==
    pc = "closing" =>
        /\ Len(video_data) = Cardinality(FirstDeliveries)
        /\ \A k \in DOMAIN video_data :
               /\ video_data[k].index = k
               /\ \E i \in FirstDeliveries :
                      /\ Cardinality({j \in FirstDeliveries : j <= i}) = k
                      /\ video_data[k].video_id = VideoId(delivered[i])
                      /\ video_data[k].url = delivered[i]

\* abc123, def456, abc123 gives 1 -> abc123, 2 -> def456.
C5_Witness ==
    /\ pc = "closing"
    /\ delivered = <<MuxUrl("abc123"), MuxUrl("def456"), MuxUrl("abc123")>>
    /\ Len(video_data) = 2
    /\ video_data[1].index = 1 /\ video_data[1].video_id = <<"abc123">>
    /\ video_data[2].index = 2 /\ video_data[2].video_id = <<"def456">>

\* C6: under the manual strategy no step of the task issues an input signal,
\* and once an awaited page operation has found the session gone the task is
\* out of the monitoring loop.
C6_ManualIsPassive ==
    /\ pc \in ManualPcs => (signal = "none" /\ ~session_lost)
    /\ (pc = "closing" /\ ~keyboard_nav_works) => signal = "none"

\* Monitoring ended because the session was found closed, after two polls
\* that found it open.
C6_Witness ==
    /\ pc = "closing"
    /\ ~keyboard_nav_works
    /\ session_lost
    /\ elapsed = 2 * ManualPollSeconds
    /\ Len(video_data) >= 1

\* C7: a run without force on a cache file that holds a non-empty sequence
\* never has a browser, issues no signal, leaves the file as it was and
\* returns the sequence the file holds (for the file an earlier run wrote,
\* the records that run built).
C7_CacheHit ==
    (pc # "idle" /\ ~force_reextract /\ ValidCache(file_at_start))
        => /\ pc \in AfterReturnPcs
           /\ browser = "none"
           /\ signal = "none"
           /\ urls_file = file_at_start
           /\ video_data = JsonLoad(file_at_start.text).value
           /\ file_at_start = ValidFile
                  => video_data = ConvertToVideoData(EarlierCapture)

C7_Witness ==
    /\ pc = "returned"
    /\ ~force_reextract
    /\ file_at_start = ValidFile
    /\ browser = "none"
    /\ Len(video_data) = 1

\* C8: a run with force never takes the early return: it is launching the
\* browser or has launched it, whatever the cache file holds, and what it
\* returns is not the sequence the cache file held.
C8_ForceBypassesCache ==
    (pc # "idle" /\ force_reextract)
        => /\ pc = "launch" \/ browser # "none"
           /\ (pc \in AfterReturnPcs /\ ValidCache(file_at_start))
                  => video_data # JsonLoad(file_at_start.text).value

\* A forced run over a valid cache has returned freshly extracted records.
C8_Witness ==
    /\ pc = "returned"
    /\ force_reextract
    /\ file_at_start = ValidFile
    /\ browser = "closed"
    /\ Len(video_data) >= 1

\* C9: a run without force on a cache file that exists but does not parse, or
\* parses to an empty sequence, does not end in the cache check: it is
\* launching the browser or has launched it, as a run with no cache file is.
C9_BadCacheIsMiss ==
    (pc # "idle" /\ ~force_reextract /\ ~ValidCache(file_at_start))
        => pc = "launch" \/ browser # "none"

\* A run over a cache file that does not parse has opened the browser.
C9_Witness ==
    /\ pc = "navigate"
    /\ ~force_reextract
    /\ file_at_start.exists
    /\ ~JsonLoad(file_at_start.text).ok
    /\ browser = "open"

\* C10: once every poll of the login wait up to the 300-second ceiling has
\* seen the login boundary, extract_video_urls has returned the empty
\* sequence with the browser closed, the detector and the pager have not run,
\* and the command that called it exits with status 1.
C10_LoginTimeout ==
    login_stayed
        => /\ pc \in {"returned", "exited"}
           /\ video_data = <<>>
           /\ browser = "closed"
           /\ signal = "none" /\ ~keyboard_nav_works /\ navigation_count = 0
           /\ pc = "exited" => exit_status = 1

\* The download command has exited after a login timeout.
C10_Witness ==
    /\ login_stayed
    /\ pc = "exited"
    /\ command = "download"
    /\ exit_status = 1

\* C11 (as claimed): a step in which an awaited page operation of the pager,
\* automatic or manual, finds the browser session gone leads to finalization:
\* the records are built from the streams captured so far and written to the
\* cache file, and the run goes on to return them.
C11_SessionLossFinalizes ==
    [][ (pc \in AutoPcs \cup ManualPcs /\ ~session_lost /\ session_lost')
            => /\ pc' = "closing"
               /\ video_data' = ConvertToVideoData(all_video_urls)
               /\ urls_file' = [exists |-> TRUE, text |-> JsonDump(video_data')]
      ]_vars

\* C12: the download command has exited with status 0 exactly when
\* extraction returned a record and the output file of every record is on
\* disk, found there by the scan or left by a successful download; the test
\* command has exited with status 0 exactly when extraction returned a record.
\* Either exits with 0 or 1.
C12_ExitStatus ==
    pc = "exited" =>
        /\ exit_status \in {0, 1}
        /\ command = "download" =>
               (exit_status = 0 <=>
                   /\ Len(video_data) >= 1
                   /\ \A i \in DOMAIN video_data :
                          OutputPath(i, video_data[i].title) \in videos_dir)
        /\ command = "test" => (exit_status = 0 <=> Len(video_data) >= 1)

\* Two records, one already on disk, the other downloaded: exit status 0.
C12_Witness ==
    /\ pc = "exited"
    /\ command = "download"
    /\ exit_status = 0
    /\ Len(video_data) = 2
    /\ Len(to_download) = 1
    /\ download_pos = 1

\* The items of to_download attempted so far whose output file is not on
\* disk: those whose download returned failure, in the order of the attempts.
FailedSoFar ==
    LET attempted == SubSeq(to_download, 1, download_pos)
        missing   == SelectSeq(attempted,
                         LAMBDA item : OutputPath(item.index, item.video_info.title)
                                           \notin videos_dir)
    IN  [k \in DOMAIN missing |-> missing[k].video_info]

\* C13: while the batch runs and when it is over, to_download is in index
\* order, the items attempted are its first download_pos items whatever their
\* outcomes, the failure list holds exactly those of them whose download
\* failed, and the command does not exit before the last item was attempted.
C13_BatchGoesOn ==
    (pc \in {"downloading", "exited"} /\ command = "download")
        => /\ \A j, k \in DOMAIN to_download :
                  j < k => to_download[j].index < to_download[k].index
           /\ download_pos <= Len(to_download)
           /\ pc = "downloading" => download_pos < Len(to_download)
           /\ pc = "exited" => download_pos = Len(to_download)
           /\ failed_downloads = FailedSoFar

\* Two items, the first failed, the second was still attempted and succeeded.
C13_Witness ==
    /\ pc = "exited"
    /\ Len(to_download) = 2
    /\ download_pos = 2
    /\ failed_downloads = <<to_download[1].video_info>>
    /\ OutputPath(2, video_data[2].title) \in videos_dir
    /\ exit_status = 1

\* The records of the responses delivered to the first run: one for each
\* identifier, in the order of first delivery, numbered from 1.
FirstRunRecords ==
    LET idx == SelectSeq([i \in DOMAIN delivered |-> i],
                         LAMBDA i : i \in FirstDeliveries)
    IN  [k \in DOMAIN idx |->
            [title |-> LessonTitle(k), url |-> delivered[idx[k]],
             video_id |-> VideoId(delivered[idx[k]]), index |-> k]]

\* C14: the first run, a fresh extraction, returns the records of what was
\* delivered to it.  When these are one or more, the run that follows it
\* without force returns the same sequence, record for record, with no
\* browser and no signal, and leaves the cache file alone; when the first run
\* captured nothing, the run that follows launches the browser again.
C14_CacheRoundTrip ==
    /\ (~file_at_start.exists /\ pc \in AfterReturnPcs)
           => video_data = FirstRunRecords
    /\ (file_at_start.exists /\ pc # "idle" /\ ~force_reextract)
           => IF Len(FirstRunRecords) >= 1
              THEN /\ pc \in AfterReturnPcs
                   /\ browser = "none"
                   /\ signal = "none"
                   /\ video_data = FirstRunRecords
                   /\ urls_file = file_at_start
              ELSE /\ pc \in {"launch", "navigate"}
                   /\ video_data = <<>>

\* The second run has returned the two records of the first from the cache.
C14_Witness ==
    /\ file_at_start.exists
    /\ ~force_reextract
    /\ pc = "returned"
    /\ browser = "none"
    /\ Len(delivered) = 3
    /\ Len(video_data) = 2
    /\ video_data[2].index = 2

\* The awaits of the alternative navigation, lines 255-264.
RecoveryPcs == {"auto_focus", "auto_click", "auto_space"}

\* C15: the alternative navigation starts only after an advance made with
\* the stall counter above 15; when it is over the counter is 10, not zero and
\* less than before; and the counter rises by one comparison at a time, only
\* in the comparison that follows a settle delay.  So the iteration after a
\* recovery starts from 10, the comparisons of five stalled iterations bring
\* it to 11..15 with no recovery after their advances, and the sixth is the
\* first that can start the recovery again.
C15_RecoveryCredit ==
    [][ /\ (pc \notin RecoveryPcs /\ pc' \in RecoveryPcs)
            => /\ pc = "auto_advance"
               /\ signal = "ArrowRight"
               /\ no_new_videos_count > 15
        /\ (pc = "auto_space" /\ pc' \in {"auto_settle", "closing"})
            => /\ no_new_videos_count' = 10
               /\ no_new_videos_count' < no_new_videos_count
        /\ (pc = "auto_advance" /\ pc' = "auto_settle")
            => no_new_videos_count <= 15
        /\ no_new_videos_count' > no_new_videos_count
            => /\ pc = "auto_settle"
               /\ no_new_videos_count' = no_new_videos_count + 1
        /\ pc \in RecoveryPcs => no_new_videos_count = 16
      ]_vars

\* The second recovery of a run that captured nothing starts: the first began
\* in iteration 16, this one in iteration 22, five stalled advances later.
C15_Witness ==
    /\ pc = "auto_focus"
    /\ all_video_urls = <<>>
    /\ no_new_videos_count = 16
    /\ navigation_count = 22

\* C16 (as claimed): a poll of the login wait that sees the page URL outside
\* the login boundary, the last poll at 300 seconds included, takes the run on
\* to the content wait and the detector; the browser stays open.
C16_BoundaryExitProceeds ==
    [][ (pc = "login_wait" /\ pc' # "exited" /\ ~IsLoginBoundary(page_url'))
            => /\ pc' = "content_wait"
               /\ browser' = "open"
      ]_vars

\* The position of an await within an iteration of the automatic loop.
Stage ==
    CASE pc = "auto_settle"  -> 1
      [] pc = "auto_advance" -> 2
      [] pc = "auto_focus"   -> 3
      [] pc = "auto_click"   -> 4
      [] pc = "auto_space"   -> 5
      [] OTHER               -> 0

\* C17: the automatic pager always comes to an end.  An iteration starts
\* only by counting itself, there are never more than 150, ArrowRight is
\* pressed only once in an iteration, after its comparison, every step of
\* the task moves on within the iteration or to the next one, and a run that
\* is in the loop gets out of it, whatever responses arrive and however
\* often the recovery runs.
C17_PagerTerminates ==
    /\ [][ /\ (pc' = "auto_settle" /\ pc # "auto_settle")
               => /\ navigation_count' = navigation_count + 1
                  /\ navigation_count' <= 150
           /\ (pc \in AutoPcs /\ pc' # pc /\ signal' = "ArrowRight")
               => /\ pc = "auto_settle"
                  /\ pc' = "auto_advance"
                  /\ navigation_count' = navigation_count
           /\ (pc \in AutoPcs /\ pc' \in AutoPcs /\ pc' # pc)
               => \/ navigation_count' = navigation_count /\ Stage' > Stage
                  \/ navigation_count' = navigation_count + 1 /\ Stage' = 1
         ]_vars
    /\ (pc \in AutoPcs) ~> (pc \in {"closing", "exited"})

\* The 150th iteration has pressed ArrowRight and the loop is over.
C17_Witness ==
    /\ pc = "closing"
    /\ keyboard_nav_works
    /\ navigation_count = 150
    /\ Len(all_video_urls) = 2
    /\ no_new_videos_count < 15

\* C18: manual monitoring always comes to an end.  The loop is left only to
\* finalization, when an awaited page operation found the session gone or
\* the time since the start is more than 600 seconds, and it is not gone
\* round again with more than 600 seconds on the clock; finalization builds
\* the records of the streams captured so far and writes them to the cache
\* file, and the run returns them; and a run that is monitoring returns.
C18_ManualTerminates ==
    /\ [][ /\ (pc \in ManualPcs /\ pc' # pc)
               => pc' \in ManualPcs \cup {"closing"}
           /\ (pc \in ManualPcs /\ pc' = "closing")
               => /\ session_lost' \/ elapsed' > 600
                  /\ video_data' = ConvertToVideoData(all_video_urls)
                  /\ urls_file' = [exists |-> TRUE, text |-> JsonDump(video_data')]
           /\ (pc = "manual_probe" /\ pc' = "manual_wait")
               => /\ elapsed' > elapsed
                  /\ elapsed' <= 600
           /\ (pc = "closing" /\ ~keyboard_nav_works /\ pc' # pc)
               => /\ pc' = "returned"
                  /\ video_data' = video_data
                  /\ urls_file' = urls_file
         ]_vars
    /\ (pc \in ManualPcs) ~> (pc = "returned")

\* Monitoring has ended by the timeout, the session still open, with a
\* stream captured.
C18_Witness ==
    /\ pc = "closing"
    /\ ~keyboard_nav_works
    /\ ~session_lost
    /\ elapsed > 600
    /\ Len(video_data) >= 1
    /\ urls_file.text = JsonDump(video_data)

\* C19: the detector runs once, after the content wait, and presses
\* ArrowRight from the location it recorded; when its settle delay is over, a
\* changed location gives the automatic strategy with one ArrowLeft, an
\* unchanged one the manual strategy with no signal; ArrowLeft is pressed
\* nowhere else; and from then on the automatic loop stays automatic and the
\* manual loop manual until the run returns, neither going back to the
\* detector.
C19_StrategyDecidedOnce ==
    [][ /\ (pc' = "detect" /\ pc # "detect")
            => /\ pc = "content_wait"
               /\ signal' = "ArrowRight"
               /\ initial_url' = page_url
        /\ (pc' = "content_wait" /\ pc # "content_wait")
            => pc \in {"navigate", "login_wait"}
        /\ (pc = "detect" /\ pc' \notin {"detect", "exited"})
            => IF page_url' # initial_url
               THEN /\ keyboard_nav_works'
                    /\ signal' = "ArrowLeft"
                    /\ pc' = "detect_back"
               ELSE /\ ~keyboard_nav_works'
                    /\ signal' = "none"
                    /\ pc' = "manual_wait"
        /\ (pc' # pc /\ (signal' = "ArrowLeft" \/ pc' = "detect_back"))
            => pc = "detect"
        /\ (pc \in AutoPcs \cup {"detect_back"} /\ pc' # "exited")
            => /\ pc' \in AutoPcs \cup {"detect_back", "closing"}
               /\ keyboard_nav_works'
        /\ pc \in ManualPcs
            => /\ pc' \in ManualPcs \cup {"closing"}
               /\ ~keyboard_nav_works'
        /\ (pc = "closing" /\ pc' = "closing")
            => keyboard_nav_works' = keyboard_nav_works
      ]_vars

\* The location changed: the automatic strategy, ArrowLeft pressed.
C19_Witness ==
    /\ pc = "detect_back"
    /\ signal = "ArrowLeft"
    /\ keyboard_nav_works
    /\ page_url # initial_url
    /\ navigation_count = 0

\* C20: in the automatic loop the capture count is compared with the last
\* one seen only by the step that ends the settle delay of line 228, and that
\* delay is started by a step that issues no signal, after the await of the
\* latest signal (ArrowLeft before the first iteration, ArrowRight after an
\* advance, Space after a recovery) is over: no signal falls between the
\* start of the delay and the comparison.  The comparison counts a stall or
\* takes the new count.
C20_CompareAfterSettle ==
    [][ /\ (/\ pc \in AutoPcs \cup {"detect_back"}
            /\ pc' # "exited"
            /\ \/ last_video_count' # last_video_count
               \/ no_new_videos_count' # no_new_videos_count /\ pc # "auto_space")
            => /\ pc = "auto_settle"
               /\ signal = "none"
        /\ (pc = "auto_settle" /\ pc' \notin {"auto_settle", "exited"})
            => IF Len(all_video_urls) > last_video_count
               THEN /\ last_video_count' = Len(all_video_urls)
                    /\ no_new_videos_count' = 0
               ELSE /\ last_video_count' = last_video_count
                    /\ no_new_videos_count' = no_new_videos_count + 1
        /\ (pc' = "auto_settle" /\ pc # "auto_settle")
            => /\ signal' = "none"
               /\ \/ pc = "detect_back" /\ signal = "ArrowLeft"
                  \/ pc = "auto_advance" /\ signal = "ArrowRight"
                  \/ pc = "auto_space" /\ signal = "Space"
      ]_vars

\* The comparison of iteration 17, the one after the first recovery, has
\* counted a stall on top of the credit.
C20_Witness ==
    /\ pc = "auto_advance"
    /\ signal = "ArrowRight"
    /\ navigation_count = 17
    /\ no_new_videos_count = 11

\* The identifiers of the capture map, in its order.
CapturedIds(d) == [i \in DOMAIN d |-> d[i].video_id]

\* C21: from the subscription of the callback to the end of paging, whatever
\* await the task is suspended in, the capture map holds every identifier
\* delivered so far, in the order of first delivery; the step that ends the
\* paging loop turns the whole map, as it is at that moment, into the records
\* and writes them to the cache file, from which they can be read back; and
\* these records are what the run returns, with the file left as written.
C21_NoCaptureDropped ==
    [][ /\ (pc \in SubscribedPcs \ {"closing"} /\ pc' \notin {"returned", "exited"})
            => CapturedIds(all_video_urls') = first_seen'
        /\ (pc # "closing" /\ pc' = "closing")
            => /\ all_video_urls' = all_video_urls
               /\ Len(video_data') = Len(first_seen)
               /\ \A k \in DOMAIN video_data' :
                      /\ video_data'[k].video_id = first_seen[k]
                      /\ video_data'[k].url = all_video_urls[k].url
                      /\ video_data'[k].index = k
               /\ urls_file'.exists
               /\ JsonLoad(urls_file'.text) = [ok |-> TRUE, value |-> video_data']
        /\ (pc = "closing" /\ pc' # "closing")
            => /\ pc' = "returned"
               /\ video_data' = video_data
               /\ urls_file' = urls_file
      ]_vars

\* Two streams arrived before the pager made any comparison (during the
\* navigation, the login wait, the detector or the first wait of monitoring)
\* and both are in the records.
C21_Witness ==
    /\ pc = "closing"
    /\ last_video_count = 0
    /\ Len(video_data) = 2
    /\ CapturedIds(video_data) = first_seen
    /\ urls_file.text = JsonDump(video_data)

\* C22: in a run the cache file decides something only in the first step,
\* the cache check, whose early return gives what the file holds and leaves
\* it alone; the file changes only in the step that ends the paging loop,
\* which writes the records; that step is taken from the pager and there is
\* no way back to the pager after it, so a run writes at most once; and a
\* run that ended by the cache hit or by the login timeout, with or without
\* force, has the file as it found it.
C22_CacheReadWriteOnce ==
    [][ /\ urls_file' # urls_file
            => /\ pc \in AutoPcs \cup ManualPcs
               /\ pc' = "closing"
               /\ urls_file' = [exists |-> TRUE, text |-> JsonDump(video_data')]
        /\ (pc' = "closing" /\ pc # "closing")
            => pc \in AutoPcs \cup ManualPcs
        /\ pc \in {"closing"} \cup AfterReturnPcs
            => pc' \in {"closing"} \cup AfterReturnPcs
        /\ (pc' = "returned" /\ pc # "returned")
            => \/ /\ pc = "idle"
                  /\ ~force_reextract'
                  /\ JsonLoad(urls_file.text) = [ok |-> TRUE, value |-> video_data']
                  /\ urls_file' = urls_file
               \/ /\ pc = "login_wait"
                  /\ urls_file' = file_at_start
               \/ pc = "closing"
        /\ (login_stayed \/ browser = "none") => urls_file = file_at_start
      ]_vars

\* A forced run over an earlier run's cache file has ended by the login
\* timeout and the file holds what it held.
C22_Witness ==
    /\ pc = "returned"
    /\ login_stayed
    /\ force_reextract
    /\ file_at_start = ValidFile
    /\ urls_file = ValidFile

\* The formats of download_video's six invocations, in their order.
InvocationOrder ==
    <<"best[ext=mp4]/best",
      "best",
      "bestvideo+bestaudio/best",
      "bestvideo[ext=mp4]+bestaudio[ext=m4a]/best[ext=mp4]/best",
      "bestvideo*+bestaudio/best",
      "--merge-output-format mp4">>

\* C23: download_video on an item whose output file is there returns
\* success without an invocation.  Otherwise its invocations are the five
\* format options in their order and then the fallback command, each one
\* made only when all before it have failed, by a non-zero status or an
\* exception; it invokes again after a failure of one of the first five; it
\* returns success at the first invocation that exits 0, and failure only
\* when the sixth has failed too.
C23_FormatsInOrder ==
    [][ /\ (pc = "downloading" /\ pc' # "invoking" /\ download_pos' # download_pos)
            => /\ invoked' = <<>>
               /\ failed_downloads' = failed_downloads
               /\ OutputPath(to_download[download_pos'].index,
                             to_download[download_pos'].video_info.title)
                      \in videos_dir'
        /\ (pc = "downloading" /\ pc' = "invoking")
            => /\ Len(invoked') = 1
               /\ invoked'[1].format = InvocationOrder[1]
               /\ invoked'[1].exit = "running"
        /\ (pc = "invoking" /\ invoked' # invoked)
            => /\ Len(invoked') <= 6
               /\ \A i \in DOMAIN invoked' :
                      /\ invoked'[i].format = InvocationOrder[i]
                      /\ i < Len(invoked') => invoked'[i].exit = "failed"
               /\ IF pc' = "invoking"
                  THEN /\ Len(invoked') = Len(invoked) + 1
                       /\ invoked'[Len(invoked')].exit = "running"
                       /\ download_pos' = download_pos
                  ELSE /\ Len(invoked') = Len(invoked)
                       /\ download_pos' = download_pos + 1
                       /\ \/ /\ invoked'[Len(invoked')].exit = "zero"
                             /\ failed_downloads' = failed_downloads
                          \/ /\ invoked'[Len(invoked')].exit = "failed"
                             /\ Len(invoked') = 6
                             /\ failed_downloads' =
                                    Append(failed_downloads,
                                           to_download[download_pos'].video_info)
        /\ (pc = "invoking" /\ pc' = "invoking") => Len(invoked') <= 6
        /\ (pc = "invoking" /\ invoked' = invoked) => pc' = "invoking"
      ]_vars

\* The five format options have failed and the fallback command has exited
\* 0: the item is downloaded.
C23_Witness ==
    /\ pc = "exited"
    /\ exit_status = 0
    /\ Len(invoked) = 6
    /\ invoked[5].exit = "failed"
    /\ invoked[6] = [format |-> "--merge-output-format mp4",
                      fragments |-> FALSE, exit |-> "zero"]

====
